---- MODULE Spec2Model ----
(***************************************************************************)
(* SmartLOGIC: Bits (locked boolean cells), circuit elements (Diode,       *)
(* Triode, NOTGate, ANDGate, Gate) and the threads that run their calc().  *)
(* Python values are records [t, n]: t is the type ("bool", "int",         *)
(* "none"), n the number (True = 1, False = 0, None = 0).                  *)
(***************************************************************************)
EXTENDS Integers, Sequences, FiniteSets, TLC

NBits == 3
MaxIn == 2
NCallers == 2
NRegs == 1

\* ---------------------------------------------------------------- values
PyTrue == [t |-> "bool", n |-> 1]
PyFalse == [t |-> "bool", n |-> 0]
PyNone == [t |-> "none", n |-> 0]
PyInt(k) == [t |-> "int", n |-> k]

\* what the test of a Python value answers: None, False and 0 are falsy
Truthy(x) == x.n # 0

\* bool(x)
PyBool(x) ==
    CASE x.t = "bool" -> x
      [] x.t = "int" -> IF x.n = 0 THEN PyFalse ELSE PyTrue
      [] OTHER -> PyFalse

\* not x
PyNot(x) == IF PyBool(x) = PyTrue THEN PyFalse ELSE PyTrue

\* values a caller hands to Bit(...) and to setto(...)
CtorVals == {PyFalse, PyTrue, PyInt(1)}
SetVals == {PyFalse, PyTrue, PyInt(0), PyInt(2)}

NoThread == <<"free", 0>>
Main == <<"caller", 1>>

VARIABLES
    state,      \* Bit.state, per Bit
    lock,       \* Bit.change_lock, per Bit: the thread inside, or NoThread
    elems,      \* the elements constructed: id -> fields
    pc,         \* per thread: where it is
    exec,       \* per thread: the element whose calc() it is running, or 0
    bit,        \* per thread: the Bit of the get()/setto() it is in, or 0
    arg,        \* per thread: the argument of the setto() it is in
    vals,       \* per thread: the values its get() calls have returned
    snap,       \* history, per thread recorded: every Bit's state when
                \* its calc() began
    lastw,      \* history, per Bit recorded: the value last handed to
                \* Bit(...) or _setto(...)
    vec         \* the Bits vector: its states, length and change_lock

vars == <<state, lock, elems, pc, exec, bit, arg, vals, snap, lastw, vec>>

\* no Bits vector constructed
NoVec == [states |-> <<>>, length |-> 0, lock |-> NoThread]

AllBits == DOMAIN state
Threads == DOMAIN pc
Elems == DOMAIN elems

\* ------------------------------------------------------------- elements
\* CircuitElement.__init__ and the subclasses' __init__: the fields kept
CircuitElement(kind, input_bits, output_bits) ==
    [kind |-> kind, input_bits |-> input_bits, output_bits |-> output_bits,
     base |-> 0, in_not |-> <<>>, out_not |-> FALSE, op |-> "pass"]

Diode(anode_bit, cathode_bit) ==
    CircuitElement("Diode", <<anode_bit>>, <<cathode_bit>>)

Triode(emitter, base, collector) ==
    [CircuitElement("Triode", <<emitter>>, <<collector>>) EXCEPT !.base = base]

NOTGate(input_bit, output_bit) ==
    CircuitElement("NOTGate", <<input_bit>>, <<output_bit>>)

ANDGate(input_bits, output_bit) ==
    CircuitElement("ANDGate", input_bits, <<output_bit>>)

\* Gate.__init__: in_not is [none, list]; none stands for the default None.
\* op names the core function a subclass gives gate_op ("pass": Gate's own)
Gate(input_bits, output_bit, in_not, out_not, op) ==
    [CircuitElement("Gate", input_bits, <<output_bit>>) EXCEPT
        !.in_not = IF in_not.none THEN <<>> ELSE in_not.list,
        !.out_not = out_not,
        !.op = op]

Output_first_input(el) == el.input_bits[1]

\* self.output / self.cathode / self.collector: the one output Bit
Output(el) == el.output_bits[1]

Min(a, b) == IF a < b THEN a ELSE b

\* zip(self.inputs, self.in_not): as many pairs as the shorter list has
ZipLen(el) == Min(Len(el.input_bits), Len(el.in_not))

\* Gate.gate_op of the source: `pass`, so the call returns None
gate_op(inputs) == PyNone

\* the core functions the gate families are described with
CoreOp(op, inputs) ==
    LET n == Cardinality({i \in DOMAIN inputs : Truthy(inputs[i])})
    IN CASE op = "AND" -> IF n = Len(inputs) THEN PyTrue ELSE PyFalse
         [] op = "OR" -> IF n > 0 THEN PyTrue ELSE PyFalse
         [] op = "XOR" -> IF n % 2 = 1 THEN PyTrue ELSE PyFalse
         [] OTHER -> gate_op(inputs)

\* the list Gate.calc hands to gate_op, from the values read
GateArgs(el, vs) ==
    [i \in 1..Len(vs) |-> IF el.in_not[i] THEN PyNot(PyBool(vs[i])) ELSE PyBool(vs[i])]

\* The Bit a calc() reads next, given the values read so far; 0: none.
\*   Diode, NOTGate: the one input.  Triode: base, then emitter if base.
\*   ANDGate: all() stops at the first falsy Bit.  Gate: the zipped inputs.
NextRead(el, vs) ==
    CASE el.kind \in {"Diode", "NOTGate"} ->
            IF Len(vs) = 0 THEN el.input_bits[1] ELSE 0
      [] el.kind = "Triode" ->
            IF Len(vs) = 0 THEN el.base
            ELSE IF Len(vs) = 1 /\ Truthy(vs[1]) THEN el.input_bits[1] ELSE 0
      [] el.kind = "ANDGate" ->
            IF Len(vs) < Len(el.input_bits) /\ (Len(vs) = 0 \/ Truthy(vs[Len(vs)]))
            THEN el.input_bits[Len(vs) + 1] ELSE 0
      [] OTHER ->
            IF Len(vs) < ZipLen(el) THEN el.input_bits[Len(vs) + 1] ELSE 0

\* The value a calc() hands to its output's setto, from the values read
Diode_calc_inverted(el, vs) == PyNot(vs[1])

Diode_calc(el, vs) == vs[1]

Triode_calc_high(el, vs) == IF Truthy(vs[1]) THEN vs[2] ELSE PyInt(1)

Triode_calc(el, vs) == IF Truthy(vs[1]) THEN vs[2] ELSE PyInt(0)

NOTGate_calc_through(el, vs) == vs[1]

NOTGate_calc(el, vs) == PyNot(vs[1])

ANDGate_calc_any(el, vs) ==
    IF \E i \in DOMAIN vs : Truthy(vs[i]) THEN PyTrue ELSE PyFalse

ANDGate_calc(el, vs) ==
    IF \A i \in DOMAIN vs : Truthy(vs[i]) THEN PyTrue ELSE PyFalse

Gate_calc(el, vs) ==
    LET result == CoreOp(el.op, GateArgs(el, vs))
    IN IF el.out_not THEN PyNot(result) ELSE result

calc(el, vs) ==
    CASE el.kind = "Diode" -> Diode_calc(el, vs)
      [] el.kind = "Triode" -> Triode_calc(el, vs)
      [] el.kind = "NOTGate" -> NOTGate_calc(el, vs)
      [] el.kind = "ANDGate" -> ANDGate_calc(el, vs)
      [] OTHER -> Gate_calc(el, vs)

\* ------------------------------------------------------------- Bit steps
Bit_setto_raw(newstate) == newstate

\* Bit._setto: what is stored
Bit_setto(newstate) == PyBool(newstate)

\* a thread's snap outside calc()
NoSnap == [b \in AllBits |-> PyFalse]

Home_once(t) == IF t[1] = "caller" THEN "idle" ELSE "exited"

\* where a thread goes when its get()/setto() has returned
Home(t) == IF t[1] = "caller" THEN "idle" ELSE "loop"

\* a thread enters calc() of element e
BeginCalc(t, e) ==
    LET first == NextRead(elems[e], <<>>)
    IN /\ exec' = [exec EXCEPT ![t] = e]
       /\ vals' = [vals EXCEPT ![t] = <<>>]
       /\ snap' = IF t \in DOMAIN snap THEN [snap EXCEPT ![t] = state] ELSE snap
       /\ IF first = 0
          THEN /\ pc' = [pc EXCEPT ![t] = "set_acquire"]
               /\ bit' = [bit EXCEPT ![t] = Output(elems[e])]
               /\ arg' = [arg EXCEPT ![t] = calc(elems[e], <<>>)]
          ELSE /\ pc' = [pc EXCEPT ![t] = "get_acquire"]
               /\ bit' = [bit EXCEPT ![t] = first]
               /\ arg' = [arg EXCEPT ![t] = PyNone]
       /\ UNCHANGED <<vec, state, lock, elems, lastw>>

\* the caller calls element.calc() itself
CallCalc(t, e) ==
    /\ t[1] = "caller" /\ pc[t] = "idle"
    /\ BeginCalc(t, e)

\* run(): `while True: self.calc()`
LoopCalc(t) ==
    /\ t[1] = "elem" /\ pc[t] = "loop"
    /\ BeginCalc(t, t[2])

\* the caller calls element.run_thread(): the thread of run() starts
run_thread(t, e) ==
    /\ t[1] = "caller" /\ pc[t] = "idle"
    /\ pc[<<"elem", e>>] = "unstarted"
    /\ pc' = [pc EXCEPT ![<<"elem", e>>] = "loop"]
    /\ UNCHANGED <<vec, state, lock, elems, exec, bit, arg, vals, snap, lastw>>

\* the caller calls bit.setto(v)
CallSetto(t, b, v) ==
    /\ t[1] = "caller" /\ pc[t] = "idle"
    /\ pc' = [pc EXCEPT ![t] = "set_acquire"]
    /\ bit' = [bit EXCEPT ![t] = b]
    /\ arg' = [arg EXCEPT ![t] = v]
    /\ vals' = [vals EXCEPT ![t] = <<>>]
    /\ UNCHANGED <<vec, state, lock, elems, exec, snap, lastw>>

\* the caller calls bit.get()
CallGet(t, b) ==
    /\ t[1] = "caller" /\ pc[t] = "idle"
    /\ pc' = [pc EXCEPT ![t] = "get_acquire"]
    /\ bit' = [bit EXCEPT ![t] = b]
    /\ arg' = [arg EXCEPT ![t] = PyNone]
    /\ vals' = [vals EXCEPT ![t] = <<>>]
    /\ UNCHANGED <<vec, state, lock, elems, exec, snap, lastw>>

\* Bit.get / Bit.setto: self.change_lock.acquire()
acquire(t) ==
    /\ pc[t] \in {"get_acquire", "set_acquire"}
    /\ lock[bit[t]] = NoThread
    /\ lock' = [lock EXCEPT ![bit[t]] = t]
    /\ pc' = [pc EXCEPT ![t] = IF pc[t] = "get_acquire" THEN "get_read" ELSE "set_write"]
    /\ UNCHANGED <<vec, state, elems, exec, bit, arg, vals, snap, lastw>>

\* Bit.get: state = self._get()
get_read(t) ==
    /\ pc[t] = "get_read"
    /\ vals' = [vals EXCEPT ![t] = Append(vals[t], state[bit[t]])]
    /\ pc' = [pc EXCEPT ![t] = "get_release"]
    /\ UNCHANGED <<vec, state, lock, elems, exec, bit, arg, snap, lastw>>

get_release_keep(t) ==
    /\ pc[t] = "get_release"
    /\ pc' = [pc EXCEPT ![t] = Home(t)]
    /\ UNCHANGED <<vec, state, lock, elems, exec, bit, arg, vals, snap, lastw>>

\* Bit.get: self.change_lock.release(); return state.  In a calc() the
\* thread goes on to its next read, or to the setto of its result.
get_release(t) ==
    /\ pc[t] = "get_release"
    /\ lock' = [lock EXCEPT ![bit[t]] = NoThread]
    /\ IF exec[t] = 0
       THEN /\ pc' = [pc EXCEPT ![t] = Home(t)]
            /\ bit' = [bit EXCEPT ![t] = 0]
            /\ arg' = arg
       ELSE LET el == elems[exec[t]]
                next == NextRead(el, vals[t])
            IN IF next = 0
               THEN /\ pc' = [pc EXCEPT ![t] = "set_acquire"]
                    /\ bit' = [bit EXCEPT ![t] = Output(el)]
                    /\ arg' = [arg EXCEPT ![t] = calc(el, vals[t])]
               ELSE /\ pc' = [pc EXCEPT ![t] = "get_acquire"]
                    /\ bit' = [bit EXCEPT ![t] = next]
                    /\ arg' = arg
    /\ UNCHANGED <<vec, state, elems, exec, vals, snap, lastw>>

\* Bit.setto: self._setto(newstate)
set_write(t) ==
    /\ pc[t] = "set_write"
    /\ state' = [state EXCEPT ![bit[t]] = Bit_setto(arg[t])]
    /\ lastw' = IF bit[t] \in DOMAIN lastw THEN [lastw EXCEPT ![bit[t]] = arg[t]] ELSE lastw
    /\ pc' = [pc EXCEPT ![t] = "set_release"]
    /\ UNCHANGED <<vec, lock, elems, exec, bit, arg, vals, snap>>

\* Bit.setto: self.change_lock.release(); a calc() returns with it
set_release(t) ==
    /\ pc[t] = "set_release"
    /\ lock' = [lock EXCEPT ![bit[t]] = NoThread]
    /\ pc' = [pc EXCEPT ![t] = Home(t)]
    /\ bit' = [bit EXCEPT ![t] = 0]
    /\ arg' = [arg EXCEPT ![t] = PyNone]
    /\ exec' = [exec EXCEPT ![t] = 0]
    /\ vals' = [vals EXCEPT ![t] = <<>>]
    /\ snap' = IF t \in DOMAIN snap THEN [snap EXCEPT ![t] = NoSnap] ELSE snap
    /\ UNCHANGED <<vec, state, elems, lastw>>

\* a step inside a get() or a setto()
BitStep(t) ==
    \/ acquire(t)
    \/ get_read(t)
    \/ get_release(t)
    \/ set_write(t)
    \/ set_release(t)

\* ------------------------------------------------- one element, one caller
\* Bit.__init__: what is stored
Bit_init(v) == PyBool(v)

SeqsUpTo(S, n) == UNION {[1..k -> S] : k \in 0..n}

BitIds == 1..NBits

\* every wiring of one Diode, Triode, NOTGate or ANDGate over the Bits
BasicElems ==
    {Diode(a, c) : a \in BitIds, c \in BitIds}
    \cup {NOTGate(i, o) : i \in BitIds, o \in BitIds}
    \cup UNION {{Triode(e, b, c) : e \in BitIds, b \in BitIds} : c \in BitIds}
    \cup {ANDGate(ins, o) : ins \in SeqsUpTo(BitIds, MaxIn), o \in BitIds}

\* the threads' start: nothing called yet
InitThreads(T) ==
    /\ pc = [t \in T |-> IF t[1] = "caller" THEN "idle" ELSE "unstarted"]
    /\ exec = [t \in T |-> 0]
    /\ bit = [t \in T |-> 0]
    /\ arg = [t \in T |-> PyNone]
    /\ vals = [t \in T |-> <<>>]

\* the Bits as constructed, none locked; lastw is recorded for the Bits in R
InitBits(ctor, R) ==
    /\ state = [b \in DOMAIN ctor |-> Bit_init(ctor[b])]
    /\ lastw = [b \in R |-> ctor[b]]
    /\ lock = [b \in DOMAIN ctor |-> NoThread]

\* lastw is recorded for the anode of a Diode
Init ==
    \E ctor \in [BitIds -> CtorVals], el \in BasicElems :
        /\ InitBits(ctor, IF el.kind = "Diode" THEN {el.input_bits[1]} ELSE {})
        /\ elems = <<el>>
        /\ InitThreads({Main})
        /\ snap = [t \in {Main} |-> NoSnap]
        /\ vec = NoVec

\* the caller sets Bits and calls calc(), one call after the other
Next ==
    \/ \E t \in Threads, e \in Elems : CallCalc(t, e)
    \/ \E t \in Threads, b \in AllBits, v \in SetVals : CallSetto(t, b, v)
    \/ \E t \in Threads : acquire(t)
    \/ \E t \in Threads : get_read(t)
    \/ \E t \in Threads : get_release(t)
    \/ \E t \in Threads : set_write(t)
    \/ \E t \in Threads : set_release(t)

Spec == Init /\ [][Next]_vars

\* ------------------------------------------------------ one calc(), alone
\* thread t is in a calc() that has just written its output
CalcWrote(t) == pc[t] = "set_release" /\ exec[t] # 0

\* thread t is in a calc() of an element of this kind, its write done
Wrote(t, kind) == CalcWrote(t) /\ elems[exec[t]].kind = kind

\* thread t takes the step that writes the result of its calc()
CalcWrites(t) == pc[t] = "set_write" /\ exec[t] # 0 /\ pc'[t] = "set_release"

\* thread t takes the writing step of a setto() the caller called
CallerWrites(t) == pc[t] = "set_write" /\ exec[t] = 0 /\ pc'[t] = "set_release"

Distinct(seq) == \A i, j \in DOMAIN seq : i # j => seq[i] # seq[j]

\* C1: one calc() of an ANDGate leaves the output HIGH exactly when every
\* input Bit held HIGH when the calc() began, and LOW otherwise, whatever
\* the output held before.
C1_ANDGateTruthTable ==
    \A t \in Threads :
        Wrote(t, "ANDGate") =>
            LET el == elems[exec[t]]
                allHigh == \A i \in DOMAIN el.input_bits : snap[t][el.input_bits[i]] = PyTrue
            IN state[Output(el)] = (IF allHigh THEN PyTrue ELSE PyFalse)

\* an ANDGate of two Bits, both HIGH, has turned its LOW output HIGH
C1_Witness ==
    \E t \in Threads :
        /\ Wrote(t, "ANDGate")
        /\ LET el == elems[exec[t]]
           IN /\ Len(el.input_bits) = 2
              /\ Distinct(el.input_bits \o el.output_bits)
              /\ \A i \in 1..2 : snap[t][el.input_bits[i]] = PyTrue
              /\ snap[t][Output(el)] = PyFalse
              /\ state[Output(el)] = PyTrue

\* C2: one calc() of a NOTGate sets the output to NOT of what the input
\* held when the calc() began (L gives H, H gives L), whatever the output
\* held before.
C2_NOTGateInverts ==
    \A t \in Threads :
        Wrote(t, "NOTGate") =>
            LET el == elems[exec[t]]
            IN state[Output(el)] =
                (IF snap[t][el.input_bits[1]] = PyTrue THEN PyFalse ELSE PyTrue)

\* a NOTGate has turned its HIGH output LOW from a HIGH input
C2_Witness ==
    \E t \in Threads :
        /\ Wrote(t, "NOTGate")
        /\ LET el == elems[exec[t]]
           IN /\ el.input_bits[1] # Output(el)
              /\ snap[t][el.input_bits[1]] = PyTrue
              /\ snap[t][Output(el)] = PyTrue
              /\ state[Output(el)] = PyFalse

\* C3: one calc() of a Triode sets the collector to what the emitter held
\* when base held true, and to false when base held false, whatever emitter
\* and collector held.
C3_TriodeSwitch ==
    \A t \in Threads :
        Wrote(t, "Triode") =>
            LET el == elems[exec[t]]
            IN state[Output(el)] =
                (IF snap[t][el.base] = PyTrue THEN snap[t][el.input_bits[1]] ELSE PyFalse)

\* a Triode with base LOW has pulled its HIGH collector LOW though the
\* emitter is HIGH
C3_Witness ==
    \E t \in Threads :
        /\ Wrote(t, "Triode")
        /\ LET el == elems[exec[t]]
           IN /\ Distinct(<<el.base>> \o el.input_bits \o el.output_bits)
              /\ snap[t][el.base] = PyFalse
              /\ snap[t][el.input_bits[1]] = PyTrue
              /\ snap[t][Output(el)] = PyTrue
              /\ state[Output(el)] = PyFalse

\* C4: for a Diode whose anode and cathode are distinct Bits, the write of
\* a calc() after anode.setto(v) makes the cathode hold bool(v) and leaves
\* the anode as it is, whatever the caller wrote to the cathode before; and
\* the write of the caller's cathode.setto(w) leaves the anode as it is.
C4_DiodeOneWay ==
    [][\A t \in Threads :
        /\ CalcWrites(t) /\ elems[exec[t]].kind = "Diode" =>
            LET anode == elems[exec[t]].input_bits[1]
                cathode == Output(elems[exec[t]])
            IN anode # cathode =>
                /\ state'[cathode] = (IF Truthy(lastw[anode]) THEN PyTrue ELSE PyFalse)
                /\ state'[anode] = state[anode]
        /\ CallerWrites(t) =>
            \A e \in Elems :
                elems[e].kind = "Diode" /\ Output(elems[e]) = bit[t]
                    /\ elems[e].input_bits[1] # bit[t]
                => state'[elems[e].input_bits[1]] = state[elems[e].input_bits[1]]
      ]_vars

\* after anode.setto(2) and the caller's write of True to the cathode, the
\* Diode's calc() has written the anode's value over a LOW cathode
C4_Witness ==
    \E t \in Threads :
        /\ Wrote(t, "Diode")
        /\ LET anode == elems[exec[t]].input_bits[1]
               cathode == Output(elems[exec[t]])
           IN /\ anode # cathode
              /\ lastw[anode] = PyInt(2)
              /\ snap[t][cathode] = PyFalse
              /\ state[cathode] = PyTrue
              /\ state[anode] = PyTrue

\* ------------------------------------------------------------ one Gate
BoolSeqs == SeqsUpTo(BOOLEAN, MaxIn + 1)

\* in_not as handed to Gate(...): left out (None), or a list of flags
InNotArgs ==
    {[none |-> TRUE, list |-> <<>>]} \cup {[none |-> FALSE, list |-> f] : f \in BoolSeqs}

CoreOps == {"pass", "AND", "OR", "XOR"}

\* one Gate over the first n Bits, its output any Bit
GateElems ==
    UNION {{Gate([i \in 1..n |-> i], o, f, out_not, op) :
                n \in 0..MaxIn, o \in BitIds, f \in InNotArgs} :
            out_not \in BOOLEAN, op \in CoreOps}

GateInit ==
    /\ \E ctor \in [BitIds -> {PyFalse, PyTrue}] : InitBits(ctor, {})
    /\ \E el \in GateElems : elems = <<el>>
    /\ InitThreads({Main})
    /\ snap = [t \in {Main} |-> NoSnap]
    /\ vec = NoVec

\* the caller calls calc() again and again
GateNext ==
    \/ \E t \in Threads, e \in Elems : CallCalc(t, e)
    \/ \E t \in Threads : acquire(t)
    \/ \E t \in Threads : get_read(t)
    \/ \E t \in Threads : get_release(t)
    \/ \E t \in Threads : set_write(t)
    \/ \E t \in Threads : set_release(t)

SpecGate == GateInit /\ [][GateNext]_vars

PyOf(p) == IF p THEN PyTrue ELSE PyFalse

\* what the core function named op is to give for two values
Core2(op, a, b) ==
    CASE op = "AND" -> a /\ b
      [] op = "OR" -> a \/ b
      [] OTHER -> a # b

\* C8: a Gate with the AND, OR or XOR core, two inputs a and b, no in_not
\* flags and out_not set, has after one calc() the output NOT(a AND b),
\* NOT(a OR b), NOT(a XOR b).
C8_NegatedGates ==
    \A t \in Threads :
        Wrote(t, "Gate") =>
            LET el == elems[exec[t]]
                a == Truthy(snap[t][el.input_bits[1]])
                b == Truthy(snap[t][el.input_bits[2]])
            IN el.op \in {"AND", "OR", "XOR"} /\ Len(el.input_bits) = 2
                    /\ Distinct(el.input_bits \o el.output_bits)
                    /\ el.in_not = <<>> /\ el.out_not
                => state[Output(el)] = PyOf(~Core2(el.op, a, b))

\* C9: one calc() of a Gate with n inputs hands gate_op exactly n values,
\* the i-th being the i-th input's value, negated iff a flag is declared
\* for it and set, and writes the result, negated iff out_not, to the output.
C9_GateShape ==
    \A t \in Threads :
        Wrote(t, "Gate") =>
            LET el == elems[exec[t]]
                n == Len(el.input_bits)
                handed == GateArgs(el, vals[t])
                flag(i) == i <= Len(el.in_not) /\ el.in_not[i]
                result == CoreOp(el.op, handed)
            IN /\ Len(handed) = n
               /\ \A i \in 1..n :
                    Truthy(handed[i]) = (Truthy(snap[t][el.input_bits[i]]) # flag(i))
               /\ Truthy(state[Output(el)]) = (Truthy(result) # el.out_not)

\* C10: the Gate of the repository, with its own gate_op, on inputs [a, b]
\* with flags declared and clear, has after one calc() the output a OR b.
C10_OrGate ==
    \A t \in Threads :
        Wrote(t, "Gate") =>
            LET el == elems[exec[t]]
            IN el.op = "pass" /\ Len(el.input_bits) = 2 /\ ~el.out_not
                    /\ Distinct(el.input_bits \o el.output_bits)
                    /\ el.in_not = <<FALSE, FALSE>>
                => state[Output(el)] =
                    PyOf(Truthy(snap[t][el.input_bits[1]]) \/ Truthy(snap[t][el.input_bits[2]]))

\* ------------------------------------------- Bits shared by caller threads
Callers == {<<"caller", i>> : i \in 1..NCallers}

BitInit ==
    /\ \E ctor \in [1..NRegs -> CtorVals] : InitBits(ctor, 1..NRegs)
    /\ elems = <<>>
    /\ InitThreads(Callers)
    /\ snap = <<>>
    /\ vec = NoVec

\* every caller thread calls setto() and get() on any Bit, at any time
BitNext ==
    \/ \E t \in Threads, b \in AllBits, v \in SetVals : CallSetto(t, b, v)
    \/ \E t \in Threads, b \in AllBits : CallGet(t, b)
    \/ \E t \in Threads : acquire(t)
    \/ \E t \in Threads : get_read(t)
    \/ \E t \in Threads : get_release(t)
    \/ \E t \in Threads : set_write(t)
    \/ \E t \in Threads : set_release(t)

SpecBit == BitInit /\ [][BitNext]_vars

\* thread t takes the reading step of its get()
Reads(t) == pc[t] = "get_read" /\ pc'[t] = "get_release"

\* C7: a Bit's state is always a boolean, the boolean of the value last
\* handed to the constructor or written by a setto(); every setto() that
\* holds the lock can write; and every get() reads, and returns, the
\* boolean of the value of the latest write before its read.
C7_AtomicRegister ==
    /\ [](\A b \in AllBits : state[b] = PyOf(lastw[b].n # 0))
    /\ [](\A t \in Threads : pc[t] = "set_write" => ENABLED set_write(t))
    /\ [][\A t \in Threads :
            Reads(t) => vals'[t] = <<PyOf(lastw[bit[t]].n # 0)>>]_vars
    /\ [](\A t \in Threads :
            pc[t] = "idle" /\ vals[t] # <<>> => vals[t][1] \in {PyTrue, PyFalse})

\* a get() is about to return HIGH, read from a Bit constructed LOW that a
\* setto(2) of another thread wrote, while a third call waits for the lock
C7_Witness ==
    \E t \in Threads, u \in Threads :
        /\ t # u
        /\ pc[t] = "get_release" /\ vals[t] = <<PyTrue>>
        /\ lastw[bit[t]] = PyInt(2)
        /\ pc[u] = "set_acquire" /\ bit[u] = bit[t] /\ arg[u] = PyInt(0)

\* ------------------------------------------------- the two-Triode chain
\* the Bits of the example: HIGH, ibit1, tmpbit, ibit2, obit
HIGH == 1
ibit1 == 2
tmpbit == 3
ibit2 == 4
obit == 5

LoopThreads(n) == {<<"elem", e>> : e \in 1..n}

\* tri1 = Triode(HIGH, ibit1, tmpbit), tri2 = Triode(tmpbit, ibit2, obit);
\* HIGH = Bit(1), every other Bit holds either value
ChainInit ==
    /\ \E ctor \in [{ibit1, tmpbit, ibit2, obit} -> {PyFalse, PyTrue}] :
        state = [b \in 1..5 |-> IF b = HIGH THEN Bit_init(PyInt(1)) ELSE ctor[b]]
    /\ lock = [b \in 1..5 |-> NoThread]
    /\ lastw = <<>>
    /\ elems = <<Triode(HIGH, ibit1, tmpbit), Triode(tmpbit, ibit2, obit)>>
    /\ InitThreads({Main} \cup LoopThreads(2))
    /\ snap = <<>>
    /\ vec = NoVec

\* the caller is through with its calls
CallerStop(t) ==
    /\ t[1] = "caller" /\ pc[t] = "idle"
    /\ pc' = [pc EXCEPT ![t] = "done"]
    /\ UNCHANGED <<vec, state, lock, elems, exec, bit, arg, vals, snap, lastw>>

\* a step of the thread that runs an element's run()
LoopStep(t) == LoopCalc(t) \/ BitStep(t)

\* the caller starts the loops and flips ibit1 and ibit2, then stops
ChainNext ==
    \/ \E e \in Elems : run_thread(Main, e)
    \/ \E b \in {ibit1, ibit2}, v \in {PyFalse, PyTrue} : CallSetto(Main, b, v)
    \/ CallerStop(Main)
    \/ \E t \in Threads : LoopCalc(t)
    \/ \E t \in Threads : acquire(t)
    \/ \E t \in Threads : get_read(t)
    \/ \E t \in Threads : get_release(t)
    \/ \E t \in Threads : set_write(t)
    \/ \E t \in Threads : set_release(t)

\* every loop is scheduled again and again, and gets a lock it waits for
LoopsFair == \A t \in LoopThreads(2) : SF_vars(LoopStep(t))

SpecChain == ChainInit /\ [][ChainNext]_vars /\ LoopsFair

\* both loops run and the caller has stopped
ChainQuiet ==
    /\ pc[Main] = "done"
    /\ \A t \in LoopThreads(2) : pc[t] # "unstarted"

\* what calc() of tri1, then of tri2, leaves: tmpbit = ibit1, obit = ibit1 AND ibit2
ChainSettled ==
    /\ state[tmpbit] = state[ibit1]
    /\ state[obit] = PyOf(state[ibit1] = PyTrue /\ state[ibit2] = PyTrue)

\* C5: once both loops run and the caller has stopped flipping ibit1 and
\* ibit2, the chain reaches, and then stays in, the state that one calc()
\* of tri1 and then of tri2 gives.
C5_ChainConverges == ChainQuiet ~> []ChainSettled

\* the caller has stopped with both inputs HIGH, and the chain has raised
\* tmpbit and obit
C5_Witness ==
    /\ ChainQuiet
    /\ state[ibit1] = PyTrue /\ state[ibit2] = PyTrue
    /\ state[tmpbit] = PyTrue /\ state[obit] = PyTrue
    /\ \A t \in LoopThreads(2) : pc[t] = "loop"

\* ------------------------------------------------- the AND gate example
\* the Bits of the example: in1 and in2 are its ibit1 and ibit2, out its obit
in1 == 1
in2 == 2
out == 3

Gate1 == <<"elem", 1>>

\* ibit1 = Bit(); ibit2 = Bit(); obit = Bit();
\* and_gate = ANDGate([ibit1, ibit2], obit)
AndInit ==
    /\ state = [b \in 1..3 |-> Bit_init(PyFalse)]
    /\ lock = [b \in 1..3 |-> NoThread]
    /\ lastw = <<>>
    /\ elems = <<ANDGate(<<in1, in2>>, out)>>
    /\ InitThreads({Main, Gate1})
    /\ snap = <<>>
    /\ vec = NoVec

\* the caller's next call of the example: and_gate.run_thread(), then
\* ibit1.setto(1), then ibit2.setto(1)
Script(t) ==
    \/ run_thread(t, 1)
    \/ /\ pc[Gate1] # "unstarted" /\ state[in1] = PyFalse
       /\ CallSetto(t, in1, PyInt(1))
    \/ /\ state[in1] = PyTrue /\ state[in2] = PyFalse
       /\ CallSetto(t, in2, PyInt(1))

\* the caller follows the script and looks at any Bit in between
AndNext ==
    \/ Script(Main)
    \/ \E b \in AllBits : CallGet(Main, b)
    \/ \E t \in Threads : LoopCalc(t)
    \/ \E t \in Threads : acquire(t)
    \/ \E t \in Threads : get_read(t)
    \/ \E t \in Threads : get_release(t)
    \/ \E t \in Threads : set_write(t)
    \/ \E t \in Threads : set_release(t)

\* the gate's loop is scheduled again and again and gets a lock it waits
\* for; a get() or setto() the caller is in runs to its end
SpecAnd ==
    AndInit /\ [][AndNext]_vars /\ SF_vars(LoopStep(Gate1)) /\ WF_vars(BitStep(Main))

\* C6: with the ANDGate running and all Bits 0, obit is 0 (held, and read
\* by the caller) in every state in which ibit2 is not yet set, so while
\* both inputs are 0 and after ibit1 is set; once both are set obit becomes
\* 1, and from then on it stays 1.
C6_AndExample ==
    /\ [](state[in2] = PyFalse =>
            /\ state[out] = PyFalse
            /\ pc[Main] = "get_release" /\ bit[Main] = out => vals[Main] = <<PyFalse>>)
    /\ (state[in1] = PyTrue /\ state[in2] = PyTrue) ~> [](state[out] = PyTrue)
    /\ [][state[out] = PyTrue => state'[out] = PyTrue]_vars

\* both inputs are set and the gate has raised obit
C6_Witness ==
    /\ state[in1] = PyTrue /\ state[in2] = PyTrue /\ state[out] = PyTrue
    /\ pc[Gate1] = "set_release"

\* ----------------------------------------------------------- Bits vector
MaxLen == 4

\* an exception, as the value a raising call leaves with its caller
IndexError == [t |-> "IndexError", n |-> 0]
ValueError == [t |-> "ValueError", n |-> 0]
NameError == [t |-> "NameError", n |-> 0]

\* Bits.__init__(states), states a list
Bits_init(states) ==
    [states |-> [i \in 1..Len(states) |-> PyBool(states[i])],
     length |-> Len(states),
     lock |-> NoThread]

\* list[index] of a Python list of n items: the indices that do not raise
\* IndexError, and the item (counted from 0) a valid one names
InRange(n, index) == -n <= index /\ index < n

ListPos(n, index) == IF index < 0 THEN index + n ELSE index

\* str(int(state))
StrInt(x) == IF x.n = 0 THEN "0" ELSE IF x.n = 1 THEN "1" ELSE "?"

ParseBase2_lsb[s \in Seq({"0", "1"})] ==
    IF s = <<>> THEN 0
    ELSE (IF Head(s) = "1" THEN 1 ELSE 0) + 2 * ParseBase2_lsb[Tail(s)]

ParseBase2_msb[s \in Seq({"0", "1"})] ==
    IF s = <<>> THEN 0
    ELSE 2 * ParseBase2_msb[SubSeq(s, 1, Len(s) - 1)] + (IF s[Len(s)] = "1" THEN 1 ELSE 0)

Base2_reversed(s) == ParseBase2_lsb[s]

\* int(s, 2) of a string of binary digits that is not empty
Base2(s) == ParseBase2_msb[s]

\* the caller calls vector[index] = v
CallSetItem(t, index, v) ==
    /\ t[1] = "caller" /\ pc[t] = "idle"
    /\ pc' = [pc EXCEPT ![t] = "vset_acquire"]
    /\ bit' = [bit EXCEPT ![t] = index]
    /\ arg' = [arg EXCEPT ![t] = v]
    /\ vals' = [vals EXCEPT ![t] = <<>>]
    /\ UNCHANGED <<vec, state, lock, elems, exec, snap, lastw>>

\* the caller calls vector[index]
CallGetItem(t, index) ==
    /\ t[1] = "caller" /\ pc[t] = "idle"
    /\ pc' = [pc EXCEPT ![t] = "vget_acquire"]
    /\ bit' = [bit EXCEPT ![t] = index]
    /\ arg' = [arg EXCEPT ![t] = PyNone]
    /\ vals' = [vals EXCEPT ![t] = <<>>]
    /\ UNCHANGED <<vec, state, lock, elems, exec, snap, lastw>>

\* the caller calls int(vector)
CallInt(t) ==
    /\ t[1] = "caller" /\ pc[t] = "idle"
    /\ pc' = [pc EXCEPT ![t] = "int_acquire"]
    /\ bit' = [bit EXCEPT ![t] = 0]
    /\ arg' = [arg EXCEPT ![t] = PyNone]
    /\ vals' = [vals EXCEPT ![t] = <<>>]
    /\ UNCHANGED <<vec, state, lock, elems, exec, snap, lastw>>

Bits_acquire_unlocked(t) ==
    /\ pc[t] \in {"vset_acquire", "vget_acquire", "int_acquire"}
    /\ vec' = [vec EXCEPT !.lock = t]
    /\ pc' = [pc EXCEPT ![t] =
                CASE pc[t] = "vset_acquire" -> "vset_write"
                  [] pc[t] = "vget_acquire" -> "vget_read"
                  [] OTHER -> "int_join"]
    /\ UNCHANGED <<state, lock, elems, exec, bit, arg, vals, snap, lastw>>

\* Bits.__setitem__ / __getitem__ / __int__: self.change_lock.acquire()
Bits_acquire(t) ==
    /\ pc[t] \in {"vset_acquire", "vget_acquire", "int_acquire"}
    /\ vec.lock = NoThread
    /\ vec' = [vec EXCEPT !.lock = t]
    /\ pc' = [pc EXCEPT ![t] =
                CASE pc[t] = "vset_acquire" -> "vset_write"
                  [] pc[t] = "vget_acquire" -> "vget_read"
                  [] OTHER -> "int_join"]
    /\ UNCHANGED <<state, lock, elems, exec, bit, arg, vals, snap, lastw>>

\* Bits.__setitem__: self._set(index, state), that is
\* self.states[index] = bool(state); an IndexError leaves the method here
Bits_set(t) ==
    /\ pc[t] = "vset_write"
    /\ IF InRange(Len(vec.states), bit[t])
       THEN /\ vec' = [vec EXCEPT
                        !.states[ListPos(Len(vec.states), bit[t]) + 1] = PyBool(arg[t])]
            /\ pc' = [pc EXCEPT ![t] = "vset_release"]
            /\ vals' = vals
       ELSE /\ vec' = vec
            /\ pc' = [pc EXCEPT ![t] = "raised"]
            /\ vals' = [vals EXCEPT ![t] = <<IndexError>>]
    /\ UNCHANGED <<state, lock, elems, exec, bit, arg, snap, lastw>>

\* Bits.__getitem__: state = self._get(index), that is self.states[index];
\* an IndexError leaves the method here
Bits_get(t) ==
    /\ pc[t] = "vget_read"
    /\ IF InRange(Len(vec.states), bit[t])
       THEN /\ vals' = [vals EXCEPT
                        ![t] = <<vec.states[ListPos(Len(vec.states), bit[t]) + 1]>>]
            /\ pc' = [pc EXCEPT ![t] = "vget_release"]
       ELSE /\ vals' = [vals EXCEPT ![t] = <<IndexError>>]
            /\ pc' = [pc EXCEPT ![t] = "raised"]
    /\ UNCHANGED <<vec, state, lock, elems, exec, bit, arg, snap, lastw>>

\* Bits.__int__: ''.join(str(int(state)) for state in self.states) takes
\* the next state
int_join(t) ==
    /\ pc[t] = "int_join"
    /\ Len(vals[t]) < Len(vec.states)
    /\ vals' = [vals EXCEPT ![t] = Append(vals[t], StrInt(vec.states[Len(vals[t]) + 1]))]
    /\ UNCHANGED <<vec, state, lock, elems, pc, exec, bit, arg, snap, lastw>>

\* Bits.__int__: num = int(<the joined string>, 2); int('', 2) raises
\* ValueError and leaves the method here
int_parse(t) ==
    /\ pc[t] = "int_join"
    /\ Len(vals[t]) >= Len(vec.states)
    /\ IF vals[t] = <<>>
       THEN /\ pc' = [pc EXCEPT ![t] = "raised"]
            /\ vals' = [vals EXCEPT ![t] = <<ValueError>>]
            /\ arg' = arg
       ELSE /\ pc' = [pc EXCEPT ![t] = "int_release"]
            /\ arg' = [arg EXCEPT ![t] = PyInt(Base2(vals[t]))]
            /\ vals' = vals
    /\ UNCHANGED <<vec, state, lock, elems, exec, bit, snap, lastw>>

\* Bits.__setitem__ / __getitem__ / __int__: self.change_lock.release(),
\* and the return
Bits_release(t) ==
    /\ pc[t] \in {"vset_release", "vget_release", "int_release"}
    /\ vec' = [vec EXCEPT !.lock = NoThread]
    /\ pc' = [pc EXCEPT ![t] = "idle"]
    /\ vals' = [vals EXCEPT ![t] = IF pc[t] = "int_release" THEN <<arg[t]>> ELSE vals[t]]
    /\ bit' = [bit EXCEPT ![t] = 0]
    /\ arg' = [arg EXCEPT ![t] = PyNone]
    /\ UNCHANGED <<state, lock, elems, exec, snap, lastw>>

\* BitsElem.setto: self.master[index] = newstate.  `index` is no local
\* name of the method and no global name of the module: NameError
BitsElem_setto(t, view_index, newstate) ==
    /\ t[1] = "caller" /\ pc[t] = "idle"
    /\ pc' = [pc EXCEPT ![t] = "raised"]
    /\ bit' = [bit EXCEPT ![t] = view_index]
    /\ arg' = [arg EXCEPT ![t] = newstate]
    /\ vals' = [vals EXCEPT ![t] = <<NameError>>]
    /\ UNCHANGED <<vec, state, lock, elems, exec, snap, lastw>>

\* BitsElem.get: return self.master[index]: NameError likewise
BitsElem_get(t, view_index) ==
    /\ t[1] = "caller" /\ pc[t] = "idle"
    /\ pc' = [pc EXCEPT ![t] = "raised"]
    /\ bit' = [bit EXCEPT ![t] = view_index]
    /\ arg' = [arg EXCEPT ![t] = PyNone]
    /\ vals' = [vals EXCEPT ![t] = <<NameError>>]
    /\ UNCHANGED <<vec, state, lock, elems, exec, snap, lastw>>

\* the caller has caught the exception and goes on
Recover(t) ==
    /\ pc[t] = "raised"
    /\ pc' = [pc EXCEPT ![t] = "idle"]
    /\ bit' = [bit EXCEPT ![t] = 0]
    /\ arg' = [arg EXCEPT ![t] = PyNone]
    /\ UNCHANGED <<vec, state, lock, elems, exec, vals, snap, lastw>>

\* the indices a caller tries: from below -MaxLen to above MaxLen - 1
Indices == (0 - MaxLen - 1)..MaxLen

\* no Bit and no element, only the vector
InitNoBits ==
    /\ state = <<>> /\ lock = <<>> /\ lastw = <<>> /\ elems = <<>> /\ snap = <<>>

\* vector = Bits(p), used by one caller
VecInit ==
    /\ \E p \in SeqsUpTo(CtorVals, MaxLen) : vec = Bits_init(p)
    /\ InitNoBits
    /\ InitThreads({Main})

VecNext ==
    \/ \E i \in Indices, v \in SetVals : CallSetItem(Main, i, v)
    \/ \E i \in Indices : CallGetItem(Main, i)
    \/ CallInt(Main)
    \/ \E i \in 0..(Len(vec.states) - 1), v \in SetVals : BitsElem_setto(Main, i, v)
    \/ \E i \in 0..(Len(vec.states) - 1) : BitsElem_get(Main, i)
    \/ Bits_acquire(Main)
    \/ Bits_set(Main)
    \/ Bits_get(Main)
    \/ int_join(Main)
    \/ int_parse(Main)
    \/ Bits_release(Main)
    \/ Recover(Main)

SpecVec == VecInit /\ [][VecNext]_vars

\* 2 to the k
Pow2[k \in Nat] == IF k = 0 THEN 1 ELSE 2 * Pow2[k - 1]

\* the number a pattern of states spells in base 2, index 0 the most
\* significant bit
MsbValue(st) ==
    LET n == Len(st)
        sum[i \in 0..n] ==
            IF i = 0 THEN 0
            ELSE sum[i - 1] + (IF st[i] = PyTrue THEN Pow2[n - i] ELSE 0)
    IN sum[n]

\* thread t is inside int(vector)
InInt(t) == pc[t] \in {"int_acquire", "int_join", "int_release"}

\* C11: int(vector) of a vector of length n >= 1 is the base-2 value of the
\* pattern it holds, index 0 the most significant bit, whether the pattern
\* comes from the constructor or from per-index sets; and no step of the
\* conversion changes a stored state.
C11_IntIsMsbFirst ==
    /\ [](\A t \in Threads :
            pc[t] = "int_release" =>
                /\ Len(vec.states) >= 1
                /\ arg[t] = PyInt(MsbValue(vec.states)))
    /\ [][\A t \in Threads : InInt(t) => vec.states' = vec.states]_vars

\* int(vector) has made 11 of [1, 0, 1, 1]
C11_Witness ==
    \E t \in Threads :
        /\ pc[t] = "int_release"
        /\ vec.states = <<PyTrue, PyFalse, PyTrue, PyTrue>>
        /\ arg[t] = PyInt(11)

\* thread t takes the step of vector[index] or vector[index] = v that
\* indexes the list
Indexes(t) == pc[t] \in {"vset_write", "vget_read"} /\ pc'[t] # pc[t]

\* C12: a get or set with an index outside 0..n-1, negative ones included,
\* raises the out-of-range error and leaves the n states and the length as
\* they are.
C12_OutOfRangeRaises ==
    [][\A t \in Threads :
        Indexes(t) /\ bit[t] \notin 0..(Len(vec.states) - 1) =>
            /\ pc'[t] = "raised" /\ vals'[t] = <<IndexError>>
            /\ vec.states' = vec.states /\ vec.length' = vec.length
      ]_vars

\* C13: a call of view.setto(v) or view.get() of BitsElem(master, i), i a
\* valid index, ends without an error.
C13_ViewsWork ==
    \A t \in Threads : pc[t] = "raised" => vals[t] # <<NameError>>

\* C20: whenever no Bits operation is in progress, also after one that
\* raised, the vector's change_lock is free.
C20_LockFreeAtRest ==
    (\A t \in Threads : pc[t] \in {"idle", "raised"}) => vec.lock = NoThread

\* an element's counts fit: it has an input, and a Gate has one flag for
\* each input
CountsFit(el) ==
    /\ Len(el.input_bits) >= 1
    /\ el.kind = "Gate" => Len(el.in_not) = Len(el.input_bits)

\* C14: no element whose counts do not fit is ever constructed and then
\* recomputed.
C14_NoMismatchedElement ==
    \A t \in Threads : exec[t] # 0 => CountsFit(elems[exec[t]])

\* where the thread of a run() loop can be: between two calc(), or in a
\* get() or the setto() of one
LoopPcs ==
    {"loop", "get_acquire", "get_read", "get_release",
     "set_acquire", "set_write", "set_release"}

NetWirings ==
    { <<NOTGate(1, 2), NOTGate(2, 1)>>,
      <<Diode(1, 2), Triode(2, 3, 1)>>,
      <<ANDGate(<<1, 2>>, 3), Triode(3, 1, 2)>>,
      <<ANDGate(<<1, 1>>, 1), NOTGate(1, 1)>>,
      <<Gate(<<1, 2>>, 3, [none |-> FALSE, list |-> <<FALSE, TRUE>>], TRUE, "pass"),
        Diode(3, 1)>>,
      <<Triode(1, 2, 3), ANDGate(<<3, 2>>, 3)>> }

\* the Bits hold any values; the caller has the names of two elements it
\* has not constructed yet
NetInit ==
    /\ state \in [1..3 -> {PyFalse, PyTrue}]
    /\ lock = [b \in 1..3 |-> NoThread]
    /\ lastw = <<>>
    /\ elems \in NetWirings
    /\ pc = [t \in {Main} \cup LoopThreads(2) |->
                IF t[1] = "caller" THEN "idle" ELSE "unbuilt"]
    /\ exec = [t \in {Main} \cup LoopThreads(2) |-> 0]
    /\ bit = [t \in {Main} \cup LoopThreads(2) |-> 0]
    /\ arg = [t \in {Main} \cup LoopThreads(2) |-> PyNone]
    /\ vals = [t \in {Main} \cup LoopThreads(2) |-> <<>>]
    /\ snap = <<>>
    /\ vec = NoVec

\* the caller constructs element e: its __init__ keeps the Bits it is
\* given, and does nothing else
Construct(t, e) ==
    /\ t[1] = "caller" /\ pc[t] = "idle"
    /\ pc[<<"elem", e>>] = "unbuilt"
    /\ pc' = [pc EXCEPT ![<<"elem", e>>] = "unstarted"]
    /\ UNCHANGED <<vec, state, lock, elems, exec, bit, arg, vals, snap, lastw>>

\* the caller constructs and starts the elements, and sets and reads Bits
NetNext ==
    \/ \E e \in Elems : Construct(Main, e)
    \/ \E e \in Elems : run_thread(Main, e)
    \/ \E b \in AllBits, v \in {PyFalse, PyTrue} : CallSetto(Main, b, v)
    \/ \E b \in AllBits : CallGet(Main, b)
    \/ \E t \in Threads : LoopCalc(t)
    \/ \E t \in Threads : acquire(t)
    \/ \E t \in Threads : get_read(t)
    \/ \E t \in Threads : get_release(t)
    \/ \E t \in Threads : set_write(t)
    \/ \E t \in Threads : set_release(t)

SpecNet == NetInit /\ [][NetNext]_vars

\* thread t is in the critical section of Bit b
InCS(t, b) ==
    /\ pc[t] \in {"get_read", "get_release", "set_write", "set_release"}
    /\ bit[t] = b

\* the Bits whose lock thread t holds
Held(t) == {b \in AllBits : lock[b] = t}

\* C16: at most one thread is in the critical section of a Bit, and it is
\* the one that holds the Bit's lock; a thread holds at most one lock, and
\* none outside a get() or setto(), so none between the reads and the write
\* of a calc(); hence a thread that waits for a lock waits for a thread
\* that can take a step, in rings and on shared Bits too.
C16_LockDiscipline ==
    /\ \A b \in AllBits : Cardinality({t \in Threads : InCS(t, b)}) <= 1
    /\ \A b \in AllBits, t \in Threads : lock[b] = t <=> InCS(t, b)
    /\ \A t \in Threads : Cardinality(Held(t)) <= 1
    /\ \A t \in Threads :
        pc[t] \in {"idle", "unbuilt", "unstarted", "loop", "get_acquire", "set_acquire"}
            => Held(t) = {}
    /\ \A t \in Threads :
        pc[t] \in {"get_acquire", "set_acquire"} =>
            \/ ENABLED acquire(t)
            \/ ENABLED BitStep(lock[bit[t]])
    /\ \A t \in Threads : pc[t] = "loop" => ENABLED LoopCalc(t)

\* in the ring of two NOTGates one loop holds the lock of Bit 1 in a read,
\* and the other loop and the caller both wait for it
C16_Witness ==
    /\ elems = <<NOTGate(1, 2), NOTGate(2, 1)>>
    /\ InCS(<<"elem", 1>>, 1)
    /\ pc[<<"elem", 2>>] = "set_acquire" /\ bit[<<"elem", 2>>] = 1
    /\ pc[Main] = "set_acquire" /\ bit[Main] = 1

\* all(values), as a Python value
AllOf(vs) == PyOf(\A i \in DOMAIN vs : Truthy(vs[i]))

\* what an element of the four basic kinds writes, from the values vs it
\* has read in this calc()
Written(el, vs) ==
    CASE el.kind = "Diode" -> vs[1]
      [] el.kind = "NOTGate" -> PyOf(~Truthy(vs[1]))
      [] el.kind = "Triode" -> IF Truthy(vs[1]) THEN vs[2] ELSE PyInt(0)
      [] el.kind = "ANDGate" -> AllOf(vs)

\* C19: constructing an element changes no Bit; a Bit changes only in the
\* write of a caller's setto() on it or of the calc() of a started element
\* whose declared output it is, so never by an element not started, and an
\* element changes no input and no other Bit; and what a Diode, Triode,
\* NOTGate or ANDGate is about to write is given by the values it has read
\* in this calc() alone.
C19_ElementFrame ==
    /\ [][\A e \in Elems : Construct(Main, e) => state' = state]_vars
    /\ [][\A b \in AllBits :
            state'[b] # state[b] =>
                \E t \in Threads :
                    /\ set_write(t) /\ bit[t] = b
                    /\ exec[t] = 0 => t[1] = "caller"
                    /\ exec[t] # 0 =>
                        /\ t = <<"elem", exec[t]>>
                        /\ pc[t] \notin {"unbuilt", "unstarted"}
                        /\ elems[exec[t]].output_bits = <<b>>
       ]_vars
    /\ [](\A t \in Threads :
            pc[t] \in {"unbuilt", "unstarted"} => exec[t] = 0 /\ Held(t) = {})
    /\ [](\A t \in Threads :
            pc[t] = "set_write" /\ exec[t] # 0 /\ elems[exec[t]].kind # "Gate" =>
                arg[t] = Written(elems[exec[t]], vals[t]))

\* the Triode(3, 1, 2) has read its base, Bit 1, and its emitter, and now
\* writes a value unlike the one its collector holds, while the other
\* element is constructed and not started
C19_Witness ==
    /\ elems = <<ANDGate(<<1, 2>>, 3), Triode(3, 1, 2)>>
    /\ pc[<<"elem", 1>>] = "unstarted"
    /\ pc[<<"elem", 2>>] = "set_write" /\ bit[<<"elem", 2>>] = 2
    /\ Len(vals[<<"elem", 2>>]) = 2
    /\ PyBool(arg[<<"elem", 2>>]) # state[2]

\* ------------------------------------ inputs changed between two reads
\* ibit1, ibit2 and obit constructed LOW, and one element that reads ibit1
\* first and ibit2 second: and_gate = ANDGate([ibit1, ibit2], obit), or
\* Triode(ibit2, ibit1, obit), whose base is ibit1
TornInit ==
    /\ state = [b \in 1..3 |-> Bit_init(PyFalse)]
    /\ lock = [b \in 1..3 |-> NoThread]
    /\ lastw = (in1 :> Bit_init(PyFalse))
    /\ elems \in {<<ANDGate(<<in1, in2>>, out)>>, <<Triode(in2, in1, out)>>}
    /\ InitThreads({Main, Gate1})
    /\ snap = <<>>
    /\ vec = NoVec

\* the caller's calls: run_thread(), then ibit1.setto(1), ibit1.setto(0)
\* and ibit2.setto(1), each after the one before has returned
TornScript(t) ==
    \/ run_thread(t, 1)
    \/ /\ pc[Gate1] # "unstarted" /\ lastw[in1] = PyFalse
       /\ CallSetto(t, in1, PyInt(1))
    \/ /\ lastw[in1] = PyInt(1)
       /\ CallSetto(t, in1, PyInt(0))
    \/ /\ lastw[in1] = PyInt(0) /\ state[in2] = PyFalse
       /\ CallSetto(t, in2, PyInt(1))

TornNext ==
    \/ TornScript(Main)
    \/ \E t \in Threads : LoopCalc(t)
    \/ \E t \in Threads : acquire(t)
    \/ \E t \in Threads : get_read(t)
    \/ \E t \in Threads : get_release(t)
    \/ \E t \in Threads : set_write(t)
    \/ \E t \in Threads : set_release(t)

SpecTorn == TornInit /\ [][TornNext]_vars

\* C17: with the caller raising ibit1, lowering it again and only then
\* raising ibit2, the two inputs are HIGH together in no state, and the
\* element writes HIGH to obit only when it has read HIGH from both, one
\* after the other; that it does so is the state C17_Witness.
C17_NeverBothHigh ==
    /\ ~(state[in1] = PyTrue /\ state[in2] = PyTrue)
    /\ state[out] = PyTrue =>
        /\ state[in1] = PyFalse /\ lastw[in1] = PyInt(0)
    /\ pc[Gate1] = "set_write" /\ Truthy(arg[Gate1]) =>
        vals[Gate1] = <<PyTrue, PyTrue>>

\* the element has read ibit1 before the caller lowered it and ibit2 after
\* the caller raised it, and has written HIGH to obit
C17_Witness ==
    /\ pc[Gate1] = "set_release" /\ bit[Gate1] = out
    /\ vals[Gate1] = <<PyTrue, PyTrue>>
    /\ state[out] = PyTrue
    /\ state[in1] = PyFalse /\ state[in2] = PyTrue

\* ------------------------------------------- a vector used by two threads
Other == <<"caller", 2>>

\* vector = Bits(p), p of one element at least, used by two threads
SnapInit ==
    /\ \E p \in SeqsUpTo({PyFalse, PyTrue}, MaxLen) : p # <<>> /\ vec = Bits_init(p)
    /\ InitNoBits
    /\ InitThreads({Main, Other})

\* each thread sets elements of the vector and converts it, at any time
SnapNext ==
    \/ \E t \in Threads, i \in 0..(Len(vec.states) - 1), v \in {PyFalse, PyTrue} :
        CallSetItem(t, i, v)
    \/ \E t \in Threads : CallInt(t)
    \/ \E t \in Threads : Bits_acquire(t)
    \/ \E t \in Threads : Bits_set(t)
    \/ \E t \in Threads : int_join(t)
    \/ \E t \in Threads : int_parse(t)
    \/ \E t \in Threads : Bits_release(t)

SpecSnap == SnapInit /\ [][SnapNext]_vars

\* C18: a thread in int(vector) holds the vector's lock from its first
\* digit to its return, no state of the vector changes meanwhile, the
\* digits it has taken are those of the pattern the vector holds, and the
\* number it is about to return is that pattern's value: the value of a
\* pattern the vector held, and holds, whole.
C18_IntIsSnapshot ==
    /\ [](\A t \in Threads :
            /\ pc[t] \in {"int_join", "int_release"} =>
                /\ vec.lock = t
                /\ vals[t] = [i \in 1..Len(vals[t]) |-> StrInt(vec.states[i])]
            /\ pc[t] = "int_release" =>
                /\ Len(vals[t]) = Len(vec.states)
                /\ arg[t] = PyInt(MsbValue(vec.states)))
    /\ [][\A t \in Threads :
            pc[t] \in {"int_join", "int_release"} => vec.states' = vec.states]_vars

\* one thread is in the middle of the conversion, and the other waits with
\* a set that changes an element the first has already taken
C18_Witness ==
    \E t \in Threads, u \in Threads :
        /\ pc[t] = "int_join"
        /\ 1 <= Len(vals[t]) /\ Len(vals[t]) < Len(vec.states)
        /\ pc[u] = "vset_acquire" /\ bit[u] < Len(vals[t])
        /\ PyBool(arg[u]) # vec.states[bit[u] + 1]

\* ------------------------------------- an element fed back into itself
\* the one Bit of the circuit, input and output of its element
loopbit == 1

\* b = Bit(v), and the caller has the name of a NOTGate(b, b) or a
\* Diode(b, b) it has not constructed yet
FeedbackInit ==
    /\ \E v \in CtorVals : state = <<Bit_init(v)>>
    /\ lock = <<NoThread>>
    /\ lastw = <<>>
    /\ elems \in {<<NOTGate(loopbit, loopbit)>>, <<Diode(loopbit, loopbit)>>}
    /\ pc = (Main :> "idle") @@ (Gate1 :> "unbuilt")
    /\ exec = [t \in {Main, Gate1} |-> 0]
    /\ bit = [t \in {Main, Gate1} |-> 0]
    /\ arg = [t \in {Main, Gate1} |-> PyNone]
    /\ vals = [t \in {Main, Gate1} |-> <<>>]
    /\ snap = [t \in {Main, Gate1} |-> <<PyFalse>>]
    /\ vec = NoVec

\* the caller constructs the element, calls its calc() any number of
\* times, then starts it; it reads b at any time and never sets it
FeedbackNext ==
    \/ Construct(Main, 1)
    \/ pc[Gate1] = "unstarted" /\ CallCalc(Main, 1)
    \/ run_thread(Main, 1)
    \/ CallGet(Main, loopbit)
    \/ \E t \in Threads : LoopCalc(t)
    \/ \E t \in Threads : acquire(t)
    \/ \E t \in Threads : get_read(t)
    \/ \E t \in Threads : get_release(t)
    \/ \E t \in Threads : set_write(t)
    \/ \E t \in Threads : set_release(t)

\* the loop is scheduled again and again and gets the lock it waits for;
\* a get() or calc() the caller is in runs to its end
SpecFeedback ==
    FeedbackInit /\ [][FeedbackNext]_vars
        /\ SF_vars(LoopStep(Gate1)) /\ WF_vars(BitStep(Main))

\* the element runs, which leaves the caller only its reads
Running == pc[Gate1] \in LoopPcs

\* C21: NOTGate(b, b) and Diode(b, b) are constructed like any element;
\* every calc() of the NOTGate leaves b the opposite of what it was when
\* the calc() began, and once the gate runs b becomes HIGH again and again
\* and LOW again and again; no step of the Diode, from its first calc()
\* on, changes b.
C21_FeedbackOscillates ==
    /\ [][Construct(Main, 1) => pc'[Gate1] = "unstarted" /\ state' = state]_vars
    /\ [](\A t \in Threads :
            elems[1].kind = "NOTGate" /\ pc[t] = "set_release" /\ exec[t] # 0 =>
                state[loopbit] = PyOf(snap[t][loopbit] = PyFalse))
    /\ (elems[1].kind = "NOTGate" /\ Running /\ state[loopbit] = PyTrue)
            ~> (state[loopbit] = PyFalse)
    /\ (elems[1].kind = "NOTGate" /\ Running /\ state[loopbit] = PyFalse)
            ~> (state[loopbit] = PyTrue)
    /\ [][elems[1].kind = "Diode" => state' = state]_vars

\* the running NOTGate has just raised b from LOW, after the caller has
\* read b HIGH once before
C21_Witness ==
    /\ elems[1].kind = "NOTGate"
    /\ pc[Gate1] = "set_release"
    /\ snap[Gate1][loopbit] = PyFalse /\ state[loopbit] = PyTrue
    /\ pc[Main] = "idle" /\ vals[Main] = <<PyTrue>>

====
